---------------------------- MODULE Spec2Model ----------------------------
(***************************************************************************)
(* Work-Alone: the inactivity escalation chain, the session lifecycle and  *)
(* the mark-safe resolution, as implemented by src/commands.py over the    *)
(* session store of src/logger.py, the timer service of src/scheduler.py   *)
(* and the inbound path of src/handler.py and src/smsServiceApp.py.        *)
(*                                                                         *)
(* Time is counted in whole minutes (now).  NOW() of the store and         *)
(* datetime.now() of the process both read this clock.  A scheduled job    *)
(* runs in the minute it is due; inbound messages arrive at any minute.    *)
(* Every handler and every timer callback is one atomic step in Spec.      *)
(***************************************************************************)
EXTENDS Integers, Sequences, FiniteSets, Bags, TLC

VARIABLES
    now,        \* the clock, in minutes
    users,      \* table users: set of rows
    contacts,   \* table escalation_contacts: set of rows
    sessions,   \* table sessions: sequence of rows, the row id is the index
    timers,     \* jobs held by the scheduler: a bag of closures
    outbox,     \* what the latest step asked the messenger to send, in order
    logged,     \* rows the latest step appended to message_logs, in order
    scheduled,  \* jobs the latest step handed to the scheduler, in order
    last,       \* the latest step: which handler or callback ran, on what
    inbound,    \* per user id: the latest inbound message of that user
    effects,    \* per user id: chain side effects since the user's latest BEGIN
    received,   \* how many inbound messages have been handled
    running     \* per worker thread: the handler or callback it is executing

vars == <<now, users, contacts, sessions, timers, outbox, logged, scheduled,
          last, inbound, effects, received, running>>

-----------------------------------------------------------------------------
(* Bounds of the model *)

\* the last minute of the clock
MaxTime == 6

\* how many rows table sessions may hold
MaxSessions == 2

\* how many inbound messages are handled
MaxInbound == 3

\* how many handlers and callbacks are in flight at once in ConcSpec
MaxRunning == 2

\* the longest delay interval of a user in RenderSpec, in minutes
MaxDelay == 130

\* the longest text after the word safe in ExtractSpec, in characters
MaxLen == 4

\* the last minute in which an inbound message arrives in LiveSpec
LastArrival == 1

-----------------------------------------------------------------------------
(* Values *)

Null == -1

NoTimer == [stage |-> "none", to_number |-> "", session_id |-> 0, due |-> 0]

Phones == {"P1", "P2", "P3"}

\* Rows of table users as registered through the administrative API.
UserRows ==
    { [id |-> 1, phone_number |-> "P1", delay_interval |-> 2],
      [id |-> 2, phone_number |-> "P2", delay_interval |-> 1] }

\* Rows the administrative API may have put in table escalation_contacts.
ContactRow(i, u, p) == [id |-> i, contact_of |-> u, phone_number |-> p]

ContactConfigs ==
    { {ContactRow(1, 1, "P3")},
      {ContactRow(1, 1, "P3"), ContactRow(2, 2, "P3"), ContactRow(3, 1, "P2")} }


-----------------------------------------------------------------------------
(* Text: a message body is a sequence of one-character strings. *)

DigitValue ==
    [c \in {"0", "1", "2", "3", "4", "5", "6", "7", "8", "9"} |->
        CASE c = "0" -> 0 [] c = "1" -> 1 [] c = "2" -> 2 [] c = "3" -> 3
          [] c = "4" -> 4 [] c = "5" -> 5 [] c = "6" -> 6 [] c = "7" -> 7
          [] c = "8" -> 8 [] c = "9" -> 9]

\* str.isdigit() of one character
isdigit(c) == c \in DOMAIN DigitValue

\* str.isspace() of one character
isspace(c) == c = " "

UpperToLower ==
    [c \in {"B", "D", "E", "G", "I", "N", "O", "S", "A", "F", "K"} |->
        CASE c = "B" -> "b" [] c = "D" -> "d" [] c = "E" -> "e" [] c = "G" -> "g"
          [] c = "I" -> "i" [] c = "N" -> "n" [] c = "O" -> "o" [] c = "S" -> "s"
          [] c = "A" -> "a" [] c = "F" -> "f" [] c = "K" -> "k"]

\* str.lower()
lower(s) ==
    [i \in 1..Len(s) |-> IF s[i] \in DOMAIN UpperToLower THEN UpperToLower[s[i]] ELSE s[i]]

RECURSIVE lstrip(_)
lstrip(s) == IF s # <<>> /\ isspace(Head(s)) THEN lstrip(Tail(s)) ELSE s

RECURSIVE rstrip(_)
rstrip(s) ==
    IF s # <<>> /\ isspace(s[Len(s)]) THEN rstrip(SubSeq(s, 1, Len(s) - 1)) ELSE s

\* str.strip()
strip(s) == rstrip(lstrip(s))

\* the part of s before its first blank: s.split(" ")[0]
RECURSIVE split_space_first(_)
split_space_first(s) ==
    IF s = <<>> \/ s[1] = " " THEN <<>> ELSE <<s[1]>> \o split_space_first(Tail(s))

\* s.split(): the words of s, separated by runs of white space
RECURSIVE split(_)
split(s) ==
    LET t == lstrip(s)
        w == split_space_first(t)
    IN  IF t = <<>> THEN <<>>
        ELSE <<w>> \o split(SubSeq(t, Len(w) + 1, Len(t)))

\* int() of a run of digits
RECURSIVE int(_)
int(num) ==
    IF num = <<>> THEN 0 ELSE 10 * int(SubSeq(num, 1, Len(num) - 1)) + DigitValue[num[Len(num)]]

\* commands.py extract_int: the loop over the characters, with its num and found
RECURSIVE extract_int_loop(_, _, _)
extract_int_loop(text, num, found) ==
    IF text = <<>> THEN num
    ELSE IF isdigit(Head(text)) THEN extract_int_loop(Tail(text), Append(num, Head(text)), TRUE)
    ELSE IF found THEN num
    ELSE extract_int_loop(Tail(text), num, found)

\* extract_int that goes on after the first run: every digit of the text
extract_int_every_digit(text) ==
    LET num == SelectSeq(text, isdigit)
    IN  IF num # <<>> THEN int(num) ELSE Null

extract_int(text) ==
    LET num == extract_int_loop(text, <<>>, FALSE)
    IN  IF num # <<>> THEN int(num) ELSE Null

\* minutes_to_text without the branch for whole hours
minutes_to_text_always_remainder(minutes) ==
    IF minutes < 60 THEN <<minutes, "minute(s)">>
    ELSE <<minutes \div 60, "hour(s) and", minutes % 60, "minute(s)">>

\* commands.py minutes_to_text: the text as its parts
minutes_to_text(minutes) ==
    IF minutes < 60 THEN <<minutes, "minute(s)">>
    ELSE LET hours == minutes \div 60
             rem_minutes == minutes % 60
         IN  IF rem_minutes = 0 THEN <<hours, "hour(s)">>
             ELSE <<hours, "hour(s) and", rem_minutes, "minute(s)">>

\* Raw bodies of inbound messages (the form field Body)
Bodies ==
    { <<"b", "e", "g", "i", "n">>,
      <<"D", "O", "N", "E">>,
      <<"o", "k">>,
      <<"s", "a", "f", "e", " ", "2">>,
      <<"S", "A", "F", "E">>,
      <<"s", "a", "f", "e", " ", "9">> }

-----------------------------------------------------------------------------
(* The session store, src/logger.py.  A query result that may be None is a *)
(* set with at most one row; where the query has no ORDER BY and the code  *)
(* takes result[0], the operator gives every row that result[0] may be.    *)

SessionRow(u, t) ==
    [user_id |-> u, started_at |-> t, ended_at |-> Null, status |-> "active",
     last_check_in_at |-> t, checked_in_by_contact_id |-> Null]

SessionIds(ss) == DOMAIN ss

Max(S) == CHOOSE x \in S : \A y \in S : y <= x

\* get_user whose WHERE clause matches every row
get_user_any_row(us, phone_number, user_id) ==
    IF phone_number # "" THEN us
    ELSE IF user_id # Null THEN {u \in us : u.id = user_id}
    ELSE {}

get_user(us, phone_number, user_id) ==
    IF phone_number # "" THEN {u \in us : u.phone_number = phone_number}
    ELSE IF user_id # Null THEN {u \in us : u.id = user_id}
    ELSE {}

user_exists(us, phone_number, user_id) == get_user(us, phone_number, user_id) # {}

\* minutes since MAX(last_check_in_at) over all the sessions of the user
get_last_check_in(ss, user_id, t) ==
    LET rows == {i \in SessionIds(ss) : ss[i].user_id = user_id}
    IN  IF rows = {} THEN Null
        ELSE t - Max({ss[i].last_check_in_at : i \in rows})

get_active_session(ss, user_id) ==
    {i \in SessionIds(ss) : ss[i].status = "active" /\ ss[i].user_id = user_id}

active_session_exists(ss, user_id) == get_active_session(ss, user_id) # {}

\* the INSERT of start_session
start_session(ss, user_id, t) == Append(ss, SessionRow(user_id, t))

\* "None" when no row has this id, else whether its status is active
is_active_session(ss, session_id) ==
    IF session_id \notin SessionIds(ss) THEN "None"
    ELSE IF ss[session_id].status = "active" THEN "True" ELSE "False"

\* end_session that leaves last_check_in_at as it was
end_session_keeps_check_in(ss, session_id, t) ==
    IF session_id \notin SessionIds(ss) THEN ss
    ELSE [ss EXCEPT ![session_id].ended_at = t,
                    ![session_id].status = "inactive"]

end_session(ss, session_id, t) ==
    IF session_id \notin SessionIds(ss) THEN ss
    ELSE [ss EXCEPT ![session_id].ended_at = t,
                    ![session_id].status = "inactive",
                    ![session_id].last_check_in_at = t]

timeout_session(ss, session_id, t) ==
    IF session_id \notin SessionIds(ss) THEN ss
    ELSE [ss EXCEPT ![session_id].ended_at = t,
                    ![session_id].status = "alert",
                    ![session_id].last_check_in_at = t]

\* check_in_session that also sets ended_at, as end_session does
check_in_session_sets_ended(ss, session_id, t) ==
    IF session_id \notin SessionIds(ss) THEN ss
    ELSE [ss EXCEPT ![session_id].ended_at = t,
                    ![session_id].last_check_in_at = t]

check_in_session(ss, session_id, t) ==
    IF session_id \notin SessionIds(ss) THEN ss
    ELSE [ss EXCEPT ![session_id].last_check_in_at = t]

\* deescalate_session that puts the session back to active
deescalate_session_reactivates(ss, contact_id, session_id, t) ==
    IF session_id \notin SessionIds(ss) THEN ss
    ELSE [ss EXCEPT ![session_id].started_at = t,
                    ![session_id].checked_in_by_contact_id = contact_id,
                    ![session_id].status = "active"]

deescalate_session(ss, contact_id, session_id, t) ==
    IF session_id \notin SessionIds(ss) THEN ss
    ELSE [ss EXCEPT ![session_id].started_at = t,
                    ![session_id].checked_in_by_contact_id = contact_id,
                    ![session_id].status = "inactive"]

\* get_escalation_contact that does not match the user
get_escalation_contact_any_user(cs, user_id, contact_phone_num) ==
    {c \in cs : c.phone_number = contact_phone_num}

get_escalation_contact(cs, user_id, contact_phone_num) ==
    {c \in cs : c.contact_of = user_id /\ c.phone_number = contact_phone_num}

get_escalation_contacts(cs, user_id) == {c \in cs : c.contact_of = user_id}

\* mostRecentIsTimeout without "WHERE status = 'alert'"
mostRecentIsTimeout_any_status(ss, user_id) ==
    LET own == {i \in SessionIds(ss) : ss[i].user_id = user_id}
    IN  {i \in own : \A j \in own : ss[j].last_check_in_at <= ss[i].last_check_in_at}

\* CTE mostRecentIsTimeout: per user, the alert session with the greatest
\* last_check_in_at (DISTINCT ON keeps any one of several that tie)
mostRecentIsTimeout(ss, user_id) ==
    LET alert == {i \in SessionIds(ss) : ss[i].status = "alert" /\ ss[i].user_id = user_id}
    IN  {i \in alert : \A j \in alert : ss[j].last_check_in_at <= ss[i].last_check_in_at}

\* CTE isContactOf: the users this phone number is a contact of
isContactOf(us, cs, phone) ==
    {u.id : u \in {u \in us : \E c \in cs : c.contact_of = u.id /\ c.phone_number = phone}}

\* the query with LIMIT 1
get_recent_timeouts_for_contact_limit_1(ss, us, cs, phone) ==
    LET U == {u \in isContactOf(us, cs, phone) : mostRecentIsTimeout(ss, u) # {}}
        rows == {r \in [session_id : SessionIds(ss), user_id : U] :
                    r.session_id \in mostRecentIsTimeout(ss, r.user_id)}
    IN  IF U = {} THEN {{}} ELSE {{r} : r \in rows}

\* Every result the query may give: each a set of rows, {} standing for None.
\* (No two rows of ContactConfigs give one phone number twice to one user.)
get_recent_timeouts_for_contact(ss, us, cs, phone) ==
    LET U == {u \in isContactOf(us, cs, phone) : mostRecentIsTimeout(ss, u) # {}}
    IN  { {[session_id |-> f[u], user_id |-> u] : u \in U} :
            f \in {g \in [U -> SessionIds(ss)] : \A u \in U : g[u] \in mostRecentIsTimeout(ss, u)} }

log_user_message(user_id, message, direction) ==
    [user_id |-> user_id, contact_id |-> Null, message_text |-> message, direction |-> direction]

log_contact_message(contact_id, message, direction) ==
    [user_id |-> Null, contact_id |-> contact_id, message_text |-> message, direction |-> direction]

-----------------------------------------------------------------------------
(* The notifier, src/messenger.py, and the timer service, src/scheduler.py *)

\* A message text is its kind followed by the values formatted into it.
send_message(to, kind, args) == [via |-> "sms", to |-> to, text |-> <<kind>> \o args]

make_call(to, kind) == [via |-> "call", to |-> to, text |-> <<kind>>]

\* schedule_job that runs the closure after the default 30 minutes
schedule_job_default(stage, to_number, session_id, run_in_minutes, t) ==
    [stage |-> stage, to_number |-> to_number, session_id |-> session_id,
     due |-> t + 30]

\* the closure handed to schedule_job and the minute it runs in
schedule_job(stage, to_number, session_id, run_in_minutes, t) ==
    [stage |-> stage, to_number |-> to_number, session_id |-> session_id,
     due |-> t + run_in_minutes]

-----------------------------------------------------------------------------
(* The latest step *)

\* text is the body handed to the handler, kept for the mark-safe command only;
\* stmt is the statement executed, where a step is one statement (ConcSpec)
Step(op, from, timer, error) ==
    [op |-> op, from |-> from, timer |-> timer, error |-> error, text |-> <<>>,
     stmt |-> ""]

Stages == {"notify", "call", "escalate"}

\* a step that sends, logs and schedules nothing and writes no session
Silent == /\ outbox' = <<>>
          /\ logged' = <<>>
          /\ scheduled' = <<>>
          /\ UNCHANGED sessions

\* a chain side effect of session sid reaching user uid in minute t
Effect(kind, sid, t) == [kind |-> kind, session |-> sid, at |-> t]

NoInbound == [kind |-> "none", at |-> 0, session |-> 0]

\* the observer of the chain: side effects are kept from a user's BEGIN until
\* the user's next inbound message
Observe(user_id, kind, session_id) ==
    effects' = [effects EXCEPT ![user_id] =
                   IF inbound[user_id].kind = "begin"
                   THEN Append(@, Effect(kind, session_id, now)) ELSE @]

\* A worker thread: the handler or callback op it executes, the statement pc
\* it is at, and its local variables.  overtaken is not a variable of the
\* code: it tells that a check-in was written to the session of the callback
\* after the callback's staleness test.
Thread(op, pc, to_number, user_id, delay, job) ==
    [op |-> op, pc |-> pc, to_number |-> to_number, user_id |-> user_id,
     user_delay_interval |-> delay, existing_session |-> 0, lastCheckIn |-> 0,
     job |-> job, overtaken |-> FALSE]

Idle == Thread("idle", "", "", 0, 0, NoTimer)

-----------------------------------------------------------------------------
(* The command handlers, src/commands.py *)

\* the loop left out: no existing session is closed
end_active_sessions_skipped(ss, user_id, t) == ss

\* the loops "while existing_session is not None" of BeginCommand and DoneCommand
RECURSIVE end_active_sessions(_, _, _)
end_active_sessions(ss, user_id, t) ==
    LET existing_session == get_active_session(ss, user_id)
    IN  IF existing_session = {} THEN ss
        ELSE end_active_sessions(end_session(ss, CHOOSE i \in existing_session : TRUE, t),
                                 user_id, t)

\* the same loop of _escalate_inactivity, with timeout_session
RECURSIVE timeout_active_sessions(_, _, _)
timeout_active_sessions(ss, user_id, t) ==
    LET existing_session == get_active_session(ss, user_id)
    IN  IF existing_session = {} THEN ss
        ELSE timeout_active_sessions(timeout_session(ss, CHOOSE i \in existing_session : TRUE, t),
                                     user_id, t)

InfoCommand(message, to_number) ==
    /\ outbox' = <<send_message(to_number, "info", <<>>)>>
    /\ logged' = <<>>
    /\ scheduled' = <<>>
    /\ UNCHANGED sessions

BeginCommand(message, to_number) ==
    IF ~user_exists(users, to_number, Null)
    THEN Silent
    ELSE \E userData \in get_user(users, to_number, Null) :
         LET user_id == userData.id
             user_delay_interval == userData.delay_interval
             closed == end_active_sessions(sessions, user_id, now)
             started == start_session(closed, user_id, now)
             to_send == send_message(to_number, "begin_confirmation",
                                     minutes_to_text(user_delay_interval))
         IN  /\ Len(sessions) < MaxSessions
             /\ \E session_id \in get_active_session(started, user_id) :
                LET job == schedule_job("notify", to_number, session_id,
                                        user_delay_interval, now)
                IN  /\ sessions' = started
                    /\ scheduled' = <<job>>
                    /\ outbox' = <<to_send>>
                    /\ logged' = <<log_user_message(user_id, message, "incoming"),
                                   log_user_message(user_id, to_send.text, "outgoing")>>

\* DoneCommand that confirms whether or not a session was active
DoneCommand_always_confirms(message, to_number) ==
    IF ~user_exists(users, to_number, Null)
    THEN Silent
    ELSE \E userData \in get_user(users, to_number, Null) :
         LET user_id == userData.id
             to_send == send_message(to_number, "done_confirmation", <<>>)
         IN  /\ sessions' = end_active_sessions(sessions, user_id, now)
             /\ outbox' = <<to_send>>
             /\ logged' = <<log_user_message(user_id, message, "incoming"),
                            log_user_message(user_id, to_send.text, "outgoing")>>
             /\ scheduled' = <<>>

DoneCommand(message, to_number) ==
    IF ~user_exists(users, to_number, Null)
    THEN Silent
    ELSE \E userData \in get_user(users, to_number, Null) :
         LET user_id == userData.id
             to_send == send_message(to_number, "done_confirmation", <<>>)
         IN  IF get_active_session(sessions, user_id) # {}
             THEN /\ sessions' = end_active_sessions(sessions, user_id, now)
                  /\ outbox' = <<to_send>>
                  /\ logged' = <<log_user_message(user_id, message, "incoming"),
                                 log_user_message(user_id, to_send.text, "outgoing")>>
                  /\ scheduled' = <<>>
             ELSE /\ logged' = <<log_user_message(user_id, message, "incoming")>>
                  /\ outbox' = <<>>
                  /\ scheduled' = <<>>
                  /\ UNCHANGED sessions

\* ReplyCommand that records the check-in on the user's latest session when

\* ReplyCommand that schedules the reminder check again on a check-in
ReplyCommand_restarts_chain(message, to_number) ==
    IF get_user(users, to_number, Null) = {}
    THEN InfoCommand(message, to_number)
    ELSE \E user_data \in get_user(users, to_number, Null) :
         LET user_id == user_data.id
             to_send == send_message(to_number, "checkin_ack", <<>>)
         IN  IF ~active_session_exists(sessions, user_id)
             THEN /\ outbox' = <<send_message(to_number, "info", <<>>)>>
                  /\ logged' = <<log_user_message(user_id, message, "incoming")>>
                  /\ scheduled' = <<>>
                  /\ UNCHANGED sessions
             ELSE \E session_id \in get_active_session(sessions, user_id) :
                  /\ sessions' = check_in_session(sessions, session_id, now)
                  /\ outbox' = <<to_send>>
                  /\ logged' = <<log_user_message(user_id, message, "incoming"),
                                 log_user_message(user_id, to_send.text, "outgoing")>>
                  /\ scheduled' = <<schedule_job("notify", to_number, session_id,
                                                 user_data.delay_interval, now)>>

\* none is active
ReplyCommand_checks_in_latest(message, to_number) ==
    IF get_user(users, to_number, Null) = {}
    THEN InfoCommand(message, to_number)
    ELSE \E user_data \in get_user(users, to_number, Null) :
         LET user_id == user_data.id
             to_send == send_message(to_number, "checkin_ack", <<>>)
             own == {i \in SessionIds(sessions) : sessions[i].user_id = user_id}
         IN  IF own = {}
             THEN /\ outbox' = <<send_message(to_number, "info", <<>>)>>
                  /\ logged' = <<log_user_message(user_id, message, "incoming")>>
                  /\ scheduled' = <<>>
                  /\ UNCHANGED sessions
             ELSE /\ sessions' = check_in_session(sessions, Max(own), now)
                  /\ outbox' = <<send_message(to_number, "info", <<>>)>>
                  /\ logged' = <<log_user_message(user_id, message, "incoming")>>
                  /\ scheduled' = <<>>

ReplyCommand(message, to_number) ==
    IF get_user(users, to_number, Null) = {}
    THEN InfoCommand(message, to_number)
    ELSE \E user_data \in get_user(users, to_number, Null) :
         LET user_id == user_data.id
             to_send == send_message(to_number, "checkin_ack", <<>>)
         IN  IF ~active_session_exists(sessions, user_id)
             THEN /\ outbox' = <<send_message(to_number, "info", <<>>)>>
                  /\ logged' = <<log_user_message(user_id, message, "incoming")>>
                  /\ scheduled' = <<>>
                  /\ UNCHANGED sessions
             ELSE \E session_id \in get_active_session(sessions, user_id) :
                  /\ sessions' = check_in_session(sessions, session_id, now)
                  /\ outbox' = <<to_send>>
                  /\ logged' = <<log_user_message(user_id, message, "incoming"),
                                 log_user_message(user_id, to_send.text, "outgoing")>>
                  /\ scheduled' = <<>>

\* the de-escalation of one row of contactsTo, the same in both branches
MarkSafe(row, message, to_number) ==
    \E contact \in get_escalation_contact(contacts, row.user_id, to_number) :
    LET contact_id == contact.id
        to_send == send_message(to_number, "marked_safe", <<>>)
    IN  /\ sessions' = deescalate_session(sessions, contact_id, row.session_id, now)
        /\ outbox' = <<to_send>>
        /\ logged' = <<log_contact_message(contact_id, message, "incoming"),
                       log_contact_message(contact_id, to_send.text, "outgoing")>>
        /\ scheduled' = <<>>

\* SafeCommand that takes the first row of contactsTo when the id matches one
SafeCommand_first_candidate(message, to_number) ==
    \E contactsTo \in get_recent_timeouts_for_contact(sessions, users, contacts, to_number) :
    IF contactsTo = {}
    THEN /\ outbox' = <<send_message(to_number, "no_action_needed", <<>>)>>
         /\ logged' = <<>>
         /\ scheduled' = <<>>
         /\ UNCHANGED sessions
    ELSE IF Cardinality(contactsTo) = 1
    THEN \E row \in contactsTo : MarkSafe(row, message, to_number)
    ELSE LET uid == extract_int(message)
             match == {row \in contactsTo : row.user_id = uid}
         IN  IF uid # Null /\ match # {}
             THEN \E row \in contactsTo : MarkSafe(row, message, to_number)
             ELSE /\ outbox' = <<send_message(to_number, "listing",
                                              <<{row.user_id : row \in contactsTo}>>)>>
                  /\ logged' = <<>>
                  /\ scheduled' = <<>>
                  /\ UNCHANGED sessions

SafeCommand(message, to_number) ==
    \E contactsTo \in get_recent_timeouts_for_contact(sessions, users, contacts, to_number) :
    IF contactsTo = {}
    THEN /\ outbox' = <<send_message(to_number, "no_action_needed", <<>>)>>
         /\ logged' = <<>>
         /\ scheduled' = <<>>
         /\ UNCHANGED sessions
    ELSE IF Cardinality(contactsTo) = 1
    THEN \E row \in contactsTo : MarkSafe(row, message, to_number)
    ELSE LET uid == extract_int(message)
             match == {row \in contactsTo : row.user_id = uid}
         IN  IF uid # Null /\ match # {}
             THEN \E row \in match : MarkSafe(row, message, to_number)
             ELSE /\ outbox' = <<send_message(to_number, "listing",
                                              <<{row.user_id : row \in contactsTo}>>)>>
                  /\ logged' = <<>>
                  /\ scheduled' = <<>>
                  /\ UNCHANGED sessions

-----------------------------------------------------------------------------
(* The inbound path: src/handler.py, CommandMapper, src/smsServiceApp.py *)

\* command_registry of smsServiceApp.py: the registered keys and their handlers
command_registry ==
    [k \in { <<"i", "n", "f", "o">>, <<"b", "e", "g", "i", "n">>, <<"d", "o", "n", "e">>,
             <<"e", "n", "d">>, <<"s", "a", "f", "e">> } |->
        CASE k = <<"i", "n", "f", "o">> -> "info"
          [] k = <<"b", "e", "g", "i", "n">> -> "begin"
          [] k = <<"d", "o", "n", "e">> -> "done"
          [] k = <<"e", "n", "d">> -> "done"
          [] k = <<"s", "a", "f", "e">> -> "safe"]

\* CommandMapper.execute: the handler chosen for command_raw, on_default otherwise
execute(command_raw) ==
    LET command == lower(split_space_first(strip(command_raw)))
    IN  IF command \in DOMAIN command_registry THEN command_registry[command] ELSE "reply"

Handler(name, message, to_number) ==
    CASE name = "info" -> InfoCommand(message, to_number)
      [] name = "begin" -> BeginCommand(message, to_number)
      [] name = "done" -> DoneCommand(message, to_number)
      [] name = "safe" -> SafeCommand(message, to_number)
      [] name = "reply" -> ReplyCommand(message, to_number)

\* TwilioHandler.handle_incoming, for the form fields From and Body
handle_incoming(from, raw) ==
    LET body == strip(raw)
        parts == split(body)
        sender == get_user(users, from, Null)
    IN  /\ received < MaxInbound
        /\ received' = received + 1
        /\ IF parts = <<>>
           THEN \* parts[0] raises IndexError: the request fails, no handler runs
                /\ Silent
                /\ last' = Step("incoming", from, NoTimer, TRUE)
           ELSE LET cmd == lower(strip(parts[1]))
                IN  /\ Handler(execute(cmd), body, from)
                    /\ last' = [Step(execute(cmd), from, NoTimer, FALSE) EXCEPT
                                   !.text = IF execute(cmd) = "safe" THEN body ELSE <<>>]
        /\ timers' = timers (+) SetToBag({scheduled'[i] : i \in DOMAIN scheduled'})
        /\ inbound' = [u \in DOMAIN inbound |->
                         IF u \in {x.id : x \in sender}
                         THEN IF last'.op = "begin" /\ Len(sessions') > Len(sessions)
                              THEN [kind |-> "begin", at |-> now, session |-> Len(sessions')]
                              ELSE [kind |-> "other", at |-> 0, session |-> 0]
                         ELSE inbound[u]]
        /\ effects' = [u \in DOMAIN effects |->
                         IF u \in {x.id : x \in sender} THEN <<>> ELSE effects[u]]
        /\ UNCHANGED <<now, users, contacts, running>>

-----------------------------------------------------------------------------
(* The inactivity chain, src/commands.py *)

\* the test off by one minute
checked_in_off_by_one(lastCheckIn, user_delay_interval) == lastCheckIn + 1 < user_delay_interval

\* the test "lastCheckIn < user_delay_interval" of the three callbacks
checked_in(lastCheckIn, user_delay_interval) == lastCheckIn < user_delay_interval

\* the test left out
no_contacts_unchecked(cs) == FALSE

\* the test "contacts is None or len(contacts) == 0" of _escalate_inactivity
no_contacts(cs) == cs = {}

\* the orders in which the rows of a query without ORDER BY may come
Orders(S) ==
    {f \in [1..Cardinality(S) -> S] : \A i, j \in DOMAIN f : f[i] = f[j] => i = j}

\* a callback that raised: the job ends, nothing is sent, written or scheduled
Raised == /\ Silent
          /\ UNCHANGED effects

\* a callback that returned without doing anything
Returned == /\ Silent
            /\ UNCHANGED effects

\* "Re schedule the checkin notification", the same in the three callbacks
Reschedule(to_number, session_id, user_delay_interval) ==
    /\ scheduled' = <<schedule_job("notify", to_number, session_id, user_delay_interval, now)>>
    /\ outbox' = <<>>
    /\ logged' = <<>>
    /\ UNCHANGED <<sessions, effects>>

_notify_user_inactivity(to_number, session_id) ==
    LET user_data == get_user(users, to_number, Null)
    IN  IF user_data = {} THEN Raised      \* None.get raises AttributeError
        ELSE \E row \in user_data :
             LET user_delay_interval == row.delay_interval
                 user_id == row.id
                 lastCheckIn == get_last_check_in(sessions, user_id, now)
             IN  IF is_active_session(sessions, session_id) = "None" THEN Returned
                 ELSE IF lastCheckIn = Null THEN Raised      \* None < int raises TypeError
                 ELSE IF checked_in(lastCheckIn, user_delay_interval)
                 THEN Reschedule(to_number, session_id, user_delay_interval)
                 ELSE /\ outbox' = <<send_message(to_number, "reminder", <<>>)>>
                      /\ scheduled' = <<schedule_job("call", to_number, session_id,
                                                     user_delay_interval, now)>>
                      /\ logged' = <<>>
                      /\ Observe(user_id, "reminder", session_id)
                      /\ UNCHANGED sessions

_call_user_inactivity(to_number, session_id) ==
    LET user_data == get_user(users, to_number, Null)
    IN  IF user_data = {} THEN Raised
        ELSE \E row \in user_data :
             LET user_delay_interval == row.delay_interval
                 user_id == row.id
                 lastCheckIn == get_last_check_in(sessions, user_id, now)
             IN  IF is_active_session(sessions, session_id) \in {"None", "False"} THEN Returned
                 ELSE IF lastCheckIn = Null THEN Raised
                 ELSE IF checked_in(lastCheckIn, user_delay_interval)
                 THEN Reschedule(to_number, session_id, user_delay_interval)
                 ELSE /\ outbox' = <<make_call(to_number, "call"),
                                     send_message(to_number, "call_followup",
                                                  minutes_to_text(user_delay_interval))>>
                      /\ scheduled' = <<schedule_job("escalate", to_number, session_id,
                                                     user_delay_interval, now)>>
                      /\ logged' = <<>>
                      /\ Observe(user_id, "call", session_id)
                      /\ UNCHANGED sessions

_escalate_inactivity(to_number, session_id) ==
    LET user_data == get_user(users, to_number, Null)
    IN  IF user_data = {} THEN Raised
        ELSE \E row \in user_data :
             LET user_delay_interval == row.delay_interval
                 user_id == row.id
                 lastCheckedIn == get_last_check_in(sessions, user_id, now)
                 contacts_ == get_escalation_contacts(contacts, user_id)
             IN  IF is_active_session(sessions, session_id) \in {"None", "False"} THEN Returned
                 ELSE IF lastCheckedIn = Null THEN Raised
                 ELSE IF checked_in(lastCheckedIn, user_delay_interval)
                 THEN Reschedule(to_number, session_id, user_delay_interval)
                 ELSE IF no_contacts(contacts_) THEN Returned
                 ELSE \E order \in Orders(contacts_) :
                      /\ outbox' =
                            [i \in DOMAIN order |->
                                send_message(order[i].phone_number, "contact_notification",
                                             <<user_id>> \o minutes_to_text(lastCheckedIn))]
                            \o <<send_message(to_number, "user_escalated", <<>>)>>
                      /\ sessions' = timeout_active_sessions(sessions, user_id, now)
                      /\ scheduled' = <<>>
                      /\ logged' = <<>>
                      /\ Observe(user_id, "escalate", session_id)

\* the closure a job holds
Callback(job) ==
    CASE job.stage = "notify" -> _notify_user_inactivity(job.to_number, job.session_id)
      [] job.stage = "call" -> _call_user_inactivity(job.to_number, job.session_id)
      [] job.stage = "escalate" -> _escalate_inactivity(job.to_number, job.session_id)

\* the callback of job ends in an exception: user_data is None where .get is
\* called on it, or lastCheckIn is None where it is compared with the interval
Raises(job) ==
    LET user_data == get_user(users, job.to_number, Null)
        ended == IF job.stage = "notify" THEN {"None"} ELSE {"None", "False"}
    IN  \/ user_data = {}
        \/ /\ is_active_session(sessions, job.session_id) \notin ended
           /\ \E row \in user_data : get_last_check_in(sessions, row.id, now) = Null

\* the scheduler runs job in the minute it is due, once
RunJob(job) ==
    /\ BagIn(job, timers)
    /\ job.due <= now
    /\ Callback(job)
    /\ timers' = (timers (-) SetToBag({job}))
                    (+) SetToBag({scheduled'[i] : i \in DOMAIN scheduled'})
    /\ last' = Step(job.stage, "", job, Raises(job))
    /\ UNCHANGED <<now, users, contacts, inbound, received, running>>

Jobs(stage) == {job \in BagToSet(timers) : job.stage = stage}

NotifyJob == \E job \in Jobs("notify") : RunJob(job)

CallJob == \E job \in Jobs("call") : RunJob(job)

EscalateJob == \E job \in Jobs("escalate") : RunJob(job)

Incoming == \E from \in Phones, raw \in Bodies : handle_incoming(from, raw)

\* a minute passes once every job due in it has run
Tick ==
    /\ now < MaxTime
    /\ \A job \in BagToSet(timers) : job.due > now
    /\ now' = now + 1
    /\ last' = Step("tick", "", NoTimer, FALSE)
    /\ outbox' = <<>>
    /\ logged' = <<>>
    /\ scheduled' = <<>>
    /\ UNCHANGED <<users, contacts, sessions, timers, inbound, effects, received, running>>

Init ==
    /\ now = 0
    /\ users = UserRows
    /\ contacts \in ContactConfigs
    /\ sessions = <<>>
    /\ timers = EmptyBag
    /\ outbox = <<>>
    /\ logged = <<>>
    /\ scheduled = <<>>
    /\ last = Step("init", "", NoTimer, FALSE)
    /\ inbound = [u \in {x.id : x \in UserRows} |-> NoInbound]
    /\ received = 0
    /\ effects = [u \in {x.id : x \in UserRows} |-> <<>>]
    /\ running = [slot \in 1..MaxRunning |-> Idle]

Next == Tick \/ Incoming \/ NotifyJob \/ CallJob \/ EscalateJob

Spec == Init /\ [][Next]_vars

-----------------------------------------------------------------------------
(* ConcSpec: the handlers and callbacks run on worker threads, the web       *)
(* server's and the scheduler's, and each store statement is one step.  A    *)
(* statement of the store is atomic (autocommit); what the messenger, the    *)
(* message log and the scheduler are asked is done with the statement it     *)
(* follows.  A thread ends within the minute it began in.                    *)

\* result[0] of get_active_session, 0 standing for None
ActiveRead(user_id) ==
    IF get_active_session(sessions, user_id) = {} THEN {0}
    ELSE get_active_session(sessions, user_id)

\* the thread of slot goes on with statement pc
Goto(slot, pc) == running' = [running EXCEPT ![slot].pc = pc]

\* the same, with existing_session read
GotoWith(slot, pc, existing_session) ==
    running' = [running EXCEPT ![slot].pc = pc,
                               ![slot].existing_session = existing_session]

\* the handler or callback returns (or raises): the thread is free again
Return(slot) == running' = [running EXCEPT ![slot] = Idle]

\* a statement that only reads
Quiet == /\ outbox' = <<>>
         /\ logged' = <<>>
         /\ scheduled' = <<>>
         /\ UNCHANGED <<sessions, effects>>

\* the observer of ConcSpec: what happened to the sessions of user_id
Record(user_id, kind, session_id) ==
    effects' = [effects EXCEPT ![user_id] = Append(@, Effect(kind, session_id, now))]

\* the callback of slot, a callback of session_id, is past its staleness test
\* and is not done
InFlightStale(slot, session_id) ==
    /\ running[slot].op \in Stages
    /\ running[slot].job.session_id = session_id
    /\ running[slot].pc \in {"send_message", "get_escalation_contacts",
                             "get_active_session", "timeout_session"}

\* what every statement of a thread does besides its own effect
Statement(slot) ==
    /\ timers' = timers (+) SetToBag({scheduled'[i] : i \in DOMAIN scheduled'})
    /\ last' = [Step(running[slot].op, running[slot].to_number, running[slot].job, FALSE)
                   EXCEPT !.stmt = running[slot].pc]
    /\ UNCHANGED <<now, users, contacts, inbound, received>>

\* BeginCommand.__call__ from "Close any existing active sessions" on
BeginThread(slot) ==
    LET th == running[slot]
        to_send == send_message(th.to_number, "begin_confirmation",
                                minutes_to_text(th.user_delay_interval))
    IN  CASE th.pc = "get_active_session" ->
               \E e \in ActiveRead(th.user_id) :
                  /\ GotoWith(slot, IF e = 0 THEN "start_session" ELSE "end_session", e)
                  /\ Quiet
          [] th.pc = "end_session" ->
               /\ sessions' = end_session(sessions, th.existing_session, now)
               /\ Goto(slot, "get_active_session")
               /\ outbox' = <<>> /\ logged' = <<>> /\ scheduled' = <<>>
               /\ UNCHANGED effects
          [] th.pc = "start_session" ->          \* the INSERT of start_session
               /\ sessions' = start_session(sessions, th.user_id, now)
               /\ Goto(slot, "start_session_id")
               /\ outbox' = <<>> /\ logged' = <<>> /\ scheduled' = <<>>
               /\ UNCHANGED effects
          [] th.pc = "start_session_id" ->       \* its SELECT, then the rest
               \E session_id \in ActiveRead(th.user_id) :
                  /\ Return(slot)
                  /\ UNCHANGED <<sessions, effects>>
                  /\ IF session_id = 0
                     THEN outbox' = <<>> /\ logged' = <<>> /\ scheduled' = <<>>
                     ELSE /\ scheduled' = <<schedule_job("notify", th.to_number, session_id,
                                                         th.user_delay_interval, now)>>
                          /\ outbox' = <<to_send>>
                          /\ logged' = <<log_user_message(th.user_id, to_send.text, "outgoing")>>

\* DoneCommand.__call__ from "End any/all active sessions" on
DoneThread(slot) ==
    LET th == running[slot]
        to_send == send_message(th.to_number, "done_confirmation", <<>>)
    IN  CASE th.pc = "get_active_session" ->
               \E e \in ActiveRead(th.user_id) :
                  /\ IF e = 0 THEN Return(slot) ELSE GotoWith(slot, "end_session", e)
                  /\ Quiet
          [] th.pc = "end_session" ->
               /\ sessions' = end_session(sessions, th.existing_session, now)
               /\ Record(th.user_id, "ended_by_done", th.existing_session)
               /\ Goto(slot, "get_active_session_again")
               /\ outbox' = <<>> /\ logged' = <<>> /\ scheduled' = <<>>
          [] th.pc = "get_active_session_again" ->
               \E e \in ActiveRead(th.user_id) :
                  /\ UNCHANGED <<sessions, effects>>
                  /\ scheduled' = <<>>
                  /\ IF e = 0
                     THEN /\ Return(slot)
                          /\ outbox' = <<to_send>>
                          /\ logged' = <<log_user_message(th.user_id, to_send.text, "outgoing")>>
                     ELSE /\ GotoWith(slot, "end_session", e)
                          /\ outbox' = <<>> /\ logged' = <<>>

\* ReplyCommand.__call__ from "Make sure the user has an active session" on
ReplyThread(slot) ==
    LET th == running[slot]
        to_send == send_message(th.to_number, "checkin_ack", <<>>)
        info == /\ Return(slot)
                /\ outbox' = <<send_message(th.to_number, "info", <<>>)>>
                /\ logged' = <<>> /\ scheduled' = <<>>
                /\ UNCHANGED <<sessions, effects>>
    IN  CASE th.pc = "active_session_exists" ->
               \E e \in ActiveRead(th.user_id) :
                  IF e = 0 THEN info ELSE Goto(slot, "get_active_session") /\ Quiet
          [] th.pc = "get_active_session" ->
               \E e \in ActiveRead(th.user_id) :
                  IF e = 0 THEN info ELSE GotoWith(slot, "check_in_session", e) /\ Quiet
          [] th.pc = "check_in_session" ->
               /\ sessions' = check_in_session(sessions, th.existing_session, now)
               /\ IF \E s \in DOMAIN running : InFlightStale(s, th.existing_session)
                  THEN Record(th.user_id, "raced_check_in", th.existing_session)
                  ELSE UNCHANGED effects
               /\ running' = [s \in DOMAIN running |->
                                 IF s = slot THEN Idle
                                 ELSE IF InFlightStale(s, th.existing_session)
                                 THEN [running[s] EXCEPT !.overtaken = TRUE]
                                 ELSE running[s]]
               /\ outbox' = <<to_send>>
               /\ logged' = <<log_user_message(th.user_id, to_send.text, "outgoing")>>
               /\ scheduled' = <<>>

\* the statements the three callbacks begin with: "Make sure the session
\* hasn't ended" with the values that make the callback return, then "Check
\* if the user has checked in"; stale is the statement a stale callback goes
\* on with
StageThread(slot, ended, stale) ==
    LET th == running[slot]
    IN  CASE th.pc = "is_active_session" ->
               /\ IF is_active_session(sessions, th.job.session_id) \in ended
                  THEN Return(slot) ELSE Goto(slot, "get_last_check_in")
               /\ Quiet
          [] th.pc = "get_last_check_in" ->
               LET lastCheckIn == get_last_check_in(sessions, th.user_id, now)
               IN  /\ outbox' = <<>> /\ logged' = <<>>
                   /\ UNCHANGED <<sessions, effects>>
                   /\ IF lastCheckIn = Null
                      THEN Return(slot) /\ scheduled' = <<>>      \* TypeError
                      ELSE IF checked_in(lastCheckIn, th.user_delay_interval)
                      THEN /\ Return(slot)
                           /\ scheduled' = <<schedule_job("notify", th.to_number,
                                                          th.job.session_id,
                                                          th.user_delay_interval, now)>>
                      ELSE /\ running' = [running EXCEPT ![slot].pc = stale,
                                                         ![slot].lastCheckIn = lastCheckIn]
                           /\ scheduled' = <<>>

\* _notify_user_inactivity, statement by statement
NotifyThread(slot) ==
    LET th == running[slot]
    IN  IF th.pc = "send_message"
        THEN /\ outbox' = <<send_message(th.to_number, "reminder", <<>>)>>
             /\ scheduled' = <<schedule_job("call", th.to_number, th.job.session_id,
                                            th.user_delay_interval, now)>>
             /\ logged' = <<>>
             /\ Record(th.user_id, "reminder", th.job.session_id)
             /\ Return(slot)
             /\ UNCHANGED sessions
        ELSE StageThread(slot, {"None"}, "send_message")

\* _call_user_inactivity, statement by statement
CallThread(slot) ==
    LET th == running[slot]
    IN  IF th.pc = "send_message"
        THEN /\ outbox' = <<make_call(th.to_number, "call"),
                            send_message(th.to_number, "call_followup",
                                         minutes_to_text(th.user_delay_interval))>>
             /\ scheduled' = <<schedule_job("escalate", th.to_number, th.job.session_id,
                                            th.user_delay_interval, now)>>
             /\ logged' = <<>>
             /\ Record(th.user_id, "call", th.job.session_id)
             /\ Return(slot)
             /\ UNCHANGED sessions
        ELSE StageThread(slot, {"None", "False"}, "send_message")

\* _escalate_inactivity, statement by statement
EscalateThread(slot) ==
    LET th == running[slot]
        contacts_ == get_escalation_contacts(contacts, th.user_id)
    IN  CASE th.pc = "get_escalation_contacts" ->
               IF no_contacts(contacts_)
               THEN Return(slot) /\ Quiet
               ELSE \E order \in Orders(contacts_) :
                    /\ outbox' =
                          [i \in DOMAIN order |->
                              send_message(order[i].phone_number, "contact_notification",
                                           <<th.user_id>> \o minutes_to_text(th.lastCheckIn))]
                          \o <<send_message(th.to_number, "user_escalated", <<>>)>>
                    /\ Record(th.user_id, "escalate", th.job.session_id)
                    /\ Goto(slot, "get_active_session")
                    /\ logged' = <<>> /\ scheduled' = <<>>
                    /\ UNCHANGED sessions
          [] th.pc = "get_active_session" ->
               \E e \in ActiveRead(th.user_id) :
                  /\ IF e = 0 THEN Return(slot) ELSE GotoWith(slot, "timeout_session", e)
                  /\ Quiet
          [] th.pc = "timeout_session" ->
               /\ sessions' = timeout_session(sessions, th.existing_session, now)
               /\ Goto(slot, "get_active_session")
               /\ outbox' = <<>> /\ logged' = <<>> /\ scheduled' = <<>>
               /\ UNCHANGED effects
          [] OTHER -> StageThread(slot, {"None", "False"}, "get_escalation_contacts")

\* the statement each handler goes on with once the sender is known and the
\* inbound message is logged
FirstStatement ==
    [op \in {"begin", "done", "reply"} |->
        CASE op = "begin" -> "get_active_session"
          [] op = "done" -> "get_active_session"
          [] op = "reply" -> "active_session_exists"]

\* messages the users send in ConcSpec
ConcBodies == { <<"b", "e", "g", "i", "n">>, <<"D", "O", "N", "E">>, <<"o", "k">> }

\* sms_webhook on a thread of the web server: handle_incoming routes the
\* message and the handler runs up to "Log the received message"
Arrive ==
    \E slot \in DOMAIN running, user \in users, raw \in ConcBodies :
        LET body == strip(raw)
            op == execute(lower(strip(split(body)[1])))
        IN  /\ running[slot] = Idle
            /\ received < MaxInbound
            /\ op = "begin" =>
                  Len(sessions) + Cardinality({s \in DOMAIN running : running[s].op = "begin"})
                     < MaxSessions
            /\ received' = received + 1
            /\ running' = [running EXCEPT ![slot] =
                              Thread(op, FirstStatement[op], user.phone_number, user.id,
                                     user.delay_interval, NoTimer)]
            /\ logged' = <<log_user_message(user.id, body, "incoming")>>
            /\ outbox' = <<>>
            /\ scheduled' = <<>>
            /\ last' = [Step(op, user.phone_number, NoTimer, FALSE) EXCEPT !.stmt = "get_user"]
            /\ UNCHANGED <<now, users, contacts, sessions, timers, inbound, effects>>

\* the scheduler hands a due job to a thread of its pool; the callback runs
\* up to its get_user
Dispatch ==
    \E slot \in DOMAIN running, job \in BagToSet(timers) :
        LET user_data == get_user(users, job.to_number, Null)
        IN  /\ running[slot] = Idle
            /\ job.due <= now
            /\ timers' = timers (-) SetToBag({job})
            /\ IF user_data = {}
               THEN UNCHANGED running                      \* AttributeError
               ELSE \E row \in user_data :
                       running' = [running EXCEPT ![slot] =
                                      Thread(job.stage, "is_active_session", job.to_number,
                                             row.id, row.delay_interval, job)]
            /\ last' = [Step(job.stage, "", job, FALSE) EXCEPT !.stmt = "get_user"]
            /\ outbox' = <<>>
            /\ logged' = <<>>
            /\ scheduled' = <<>>
            /\ UNCHANGED <<now, users, contacts, sessions, inbound, effects, received>>

BeginStatement ==
    \E slot \in DOMAIN running :
        running[slot].op = "begin" /\ BeginThread(slot) /\ Statement(slot)

DoneStatement ==
    \E slot \in DOMAIN running :
        running[slot].op = "done" /\ DoneThread(slot) /\ Statement(slot)

ReplyStatement ==
    \E slot \in DOMAIN running :
        running[slot].op = "reply" /\ ReplyThread(slot) /\ Statement(slot)

NotifyStatement ==
    \E slot \in DOMAIN running :
        running[slot].op = "notify" /\ NotifyThread(slot) /\ Statement(slot)

CallStatement ==
    \E slot \in DOMAIN running :
        running[slot].op = "call" /\ CallThread(slot) /\ Statement(slot)

EscalateStatement ==
    \E slot \in DOMAIN running :
        running[slot].op = "escalate" /\ EscalateThread(slot) /\ Statement(slot)

\* a minute passes once every job due in it has run and every thread is done
ConcTick ==
    /\ \A slot \in DOMAIN running : running[slot] = Idle
    /\ Tick

ConcNext ==
    \/ ConcTick \/ Arrive \/ Dispatch
    \/ BeginStatement \/ DoneStatement \/ ReplyStatement
    \/ NotifyStatement \/ CallStatement \/ EscalateStatement

ConcSpec == Init /\ [][ConcNext]_vars

-----------------------------------------------------------------------------
(* SafeRaceSpec: ConcSpec with the SAFE of a contact, whose handler runs    *)
(* between two statements of the threads in flight.                         *)

\* sms_webhook with a SAFE: SafeCommand runs from its lookup to its return
SafeArrives == \E from \in Phones : handle_incoming(from, <<"S", "A", "F", "E">>)

SafeRaceNext == ConcNext \/ SafeArrives

SafeRaceSpec == Init /\ [][SafeRaceNext]_vars

-----------------------------------------------------------------------------
(* NotifierSpec: the chain when the provider does not accept every message. *)
(* TwilioMessenger (src/messenger.py) returns "" for a number its format    *)
(* test refuses and otherwise hands the message to the Twilio client, whose *)
(* exceptions it does not catch; the callbacks do not catch them either.    *)

\* what one call of send_message or make_call gives: the sid of the accepted
\* message, "" for a refused number, or the exception of the Twilio client
ProviderResults == {"sid", "", "raise"}

raises(results) == \E i \in DOMAIN results : results[i] = "raise"

\* of the messenger calls a callback makes in order, those the provider
\* accepted: a call that raises ends the callback
RECURSIVE delivered(_, _)
delivered(requests, results) ==
    IF requests = <<>> \/ Head(results) = "raise" THEN <<>>
    ELSE (IF Head(results) = "sid" THEN <<Head(requests)>> ELSE <<>>)
            \o delivered(Tail(requests), Tail(results))

\* job is a reminder or call job that passes the tests of its callback and
\* reaches the messenger calls: its session has not ended and is stale
ReachesMessenger(job) ==
    /\ job.stage \in {"notify", "call"}
    /\ ~Raises(job)
    /\ is_active_session(sessions, job.session_id)
          \notin (IF job.stage = "notify" THEN {"None"} ELSE {"None", "False"})
    /\ \E row \in get_user(users, job.to_number, Null) :
          ~checked_in(get_last_check_in(sessions, row.id, now), row.delay_interval)

\* the messenger calls of the callback of job and the stage it schedules next
Requests(job, user_delay_interval) ==
    IF job.stage = "notify"
    THEN <<send_message(job.to_number, "reminder", <<>>)>>
    ELSE <<make_call(job.to_number, "call"),
           send_message(job.to_number, "call_followup", minutes_to_text(user_delay_interval))>>

NextStage(job) == IF job.stage = "notify" THEN "call" ELSE "escalate"

\* the callback of job where the provider gives results to its messenger calls
Sending(job, results) ==
    IF ~ReachesMessenger(job) THEN Callback(job)
    ELSE \E row \in get_user(users, job.to_number, Null) :
         LET user_delay_interval == row.delay_interval
             accepted == delivered(Requests(job, user_delay_interval), results)
         IN  /\ outbox' = accepted
             /\ scheduled' = IF raises(results) THEN <<>>
                             ELSE <<schedule_job(NextStage(job), job.to_number, job.session_id,
                                                 user_delay_interval, now)>>
             /\ logged' = <<>>
             /\ IF accepted = <<>> THEN UNCHANGED effects
                ELSE Observe(row.id, IF job.stage = "notify" THEN "reminder" ELSE "call",
                             job.session_id)
             /\ UNCHANGED sessions

RunJobSending(job, results) ==
    /\ BagIn(job, timers)
    /\ job.due <= now
    /\ ReachesMessenger(job) \/ \A i \in DOMAIN results : results[i] = "sid"
    /\ Sending(job, results)
    /\ timers' = (timers (-) SetToBag({job}))
                    (+) SetToBag({scheduled'[i] : i \in DOMAIN scheduled'})
    /\ last' = Step(job.stage, "", job,
                    Raises(job) \/ (ReachesMessenger(job) /\ raises(results)))
    /\ UNCHANGED <<now, users, contacts, inbound, received, running>>

NotifySending ==
    \E job \in Jobs("notify"), results \in [1..1 -> ProviderResults] : RunJobSending(job, results)

CallSending ==
    \E job \in Jobs("call"), results \in [1..2 -> ProviderResults] : RunJobSending(job, results)

NotifierNext == Tick \/ Incoming \/ NotifySending \/ CallSending \/ EscalateJob

NotifierSpec == Init /\ [][NotifierNext]_vars

-----------------------------------------------------------------------------
(* AdminSpec: the service beside the administrative API of                  *)
(* src/webInterfaceApp.py, which works on the same tables.                  *)

\* PostgresLogger.update_user: the row of user_id with a new phone number
update_user(us, user_id, phone_number) ==
    {IF u.id = user_id THEN [u EXCEPT !.phone_number = phone_number] ELSE u : u \in us}

\* PATCH /api/users/<user_id> with a phone number that no user holds; the
\* number of a user is changed once
UpdateUser ==
    \E user_id \in {u.id : u \in users \cap UserRows}, phone_number \in Phones :
        /\ get_user(users, phone_number, Null) = {}
        /\ users' = update_user(users, user_id, phone_number)
        /\ last' = Step("update_user", "", NoTimer, FALSE)
        /\ outbox' = <<>>
        /\ logged' = <<>>
        /\ scheduled' = <<>>
        /\ UNCHANGED <<now, contacts, sessions, timers, inbound, effects, received, running>>

AdminNext == Tick \/ Incoming \/ NotifyJob \/ CallJob \/ EscalateJob \/ UpdateUser

AdminSpec == Init /\ [][AdminNext]_vars

-----------------------------------------------------------------------------
(* RenderSpec: the rendering of the delay interval in the confirmation of   *)
(* BEGIN, for a user registered with any delay interval up to MaxDelay.     *)

RenderInit ==
    /\ now = 0
    /\ \E minutes \in 0..MaxDelay :
          users = {[id |-> 1, phone_number |-> "P1", delay_interval |-> minutes]}
    /\ contacts = {}
    /\ sessions = <<>>
    /\ timers = EmptyBag
    /\ outbox = <<>>
    /\ logged = <<>>
    /\ scheduled = <<>>
    /\ last = Step("init", "", NoTimer, FALSE)
    /\ inbound = [u \in {x.id : x \in UserRows} |-> NoInbound]
    /\ received = 0
    /\ effects = [u \in {x.id : x \in UserRows} |-> <<>>]
    /\ running = [slot \in 1..MaxRunning |-> Idle]

\* the user sends BEGIN
RenderBegin == handle_incoming("P1", <<"b", "e", "g", "i", "n">>)

RenderNext == RenderBegin

RenderSpec == RenderInit /\ [][RenderNext]_vars

-----------------------------------------------------------------------------
(* ExtractSpec: the contact of two users whose sessions are in status alert *)
(* sends SAFE followed by any text of up to MaxLen characters.              *)

\* the characters of the text after the word safe
Alphabet == {" ", "d", "1", "2", "4"}

Suffixes == UNION {[1..n -> Alphabet] : n \in 0..MaxLen}

\* users 1 and 2 began at minute 0 and were escalated at minutes 6 and 3; one
\* more inbound message is handled
ExtractInit ==
    /\ now = 6
    /\ users = UserRows
    /\ contacts = {ContactRow(1, 1, "P3"), ContactRow(2, 2, "P3"), ContactRow(3, 1, "P2")}
    /\ sessions = << [SessionRow(1, 0) EXCEPT !.status = "alert", !.ended_at = 6,
                                             !.last_check_in_at = 6],
                     [SessionRow(2, 0) EXCEPT !.status = "alert", !.ended_at = 3,
                                             !.last_check_in_at = 3] >>
    /\ timers = EmptyBag
    /\ outbox = <<>>
    /\ logged = <<>>
    /\ scheduled = <<>>
    /\ last = Step("init", "", NoTimer, FALSE)
    /\ inbound = [u \in {x.id : x \in UserRows} |-> NoInbound]
    /\ received = MaxInbound - 1
    /\ effects = [u \in {x.id : x \in UserRows} |-> <<>>]
    /\ running = [slot \in 1..MaxRunning |-> Idle]

\* the contact sends SAFE and a text
ExtractSafe == \E suffix \in Suffixes : handle_incoming("P3", <<"s", "a", "f", "e">> \o suffix)

ExtractNext == ExtractSafe

ExtractSpec == ExtractInit /\ [][ExtractNext]_vars

-----------------------------------------------------------------------------
(* LiveSpec: finitely many inbound messages, all by minute LastArrival, and *)
(* a clock that runs long enough after it for every chain to come to its    *)
(* end.  The scheduler runs every job that is due (APScheduler runs a date  *)
(* job once its run_date has come) and time goes on: weak fairness of the   *)
(* clock and of the three kinds of job.                                     *)

\* the last minute of the clock: four times the longest delay interval after
\* the last arrival
LiveEnd == LastArrival + 4 * Max({u.delay_interval : u \in UserRows})

LiveIncoming ==
    /\ now <= LastArrival
    /\ Incoming

LiveTick ==
    /\ now < LiveEnd
    /\ \A job \in BagToSet(timers) : job.due > now
    /\ now' = now + 1
    /\ last' = Step("tick", "", NoTimer, FALSE)
    /\ outbox' = <<>>
    /\ logged' = <<>>
    /\ scheduled' = <<>>
    /\ UNCHANGED <<users, contacts, sessions, timers, inbound, effects, received, running>>

LiveNext == LiveTick \/ LiveIncoming \/ NotifySending \/ CallSending \/ EscalateJob

LiveSpec ==
    /\ Init
    /\ [][LiveNext]_vars
    /\ WF_vars(LiveTick)
    /\ WF_vars(NotifySending)
    /\ WF_vars(CallSending)
    /\ WF_vars(EscalateJob)

-----------------------------------------------------------------------------
(* DeadEndSpec: one user, the messages of that user, and the administrative *)
(* API adding an escalation contact at any moment.                          *)

\* PostgresLogger.add_escalation_contact: the INSERT of a contact row
add_escalation_contact(cs, user_id, phone_number) ==
    cs \cup {ContactRow(Max({0} \cup {c.id : c \in cs}) + 1, user_id, phone_number)}

\* POST /api/users/<user_id>/contacts, for a number that is not yet a contact
\* of the user
AddContact ==
    \E user \in users :
        /\ get_escalation_contact(contacts, user.id, "P3") = {}
        /\ contacts' = add_escalation_contact(contacts, user.id, "P3")
        /\ last' = Step("add_user_contact", "", NoTimer, FALSE)
        /\ outbox' = <<>>
        /\ logged' = <<>>
        /\ scheduled' = <<>>
        /\ UNCHANGED <<now, users, sessions, timers, inbound, effects, received, running>>

\* the messages of user 2
DeadEndIncoming == \E raw \in ConcBodies : handle_incoming("P2", raw)

DeadEndNext == Tick \/ DeadEndIncoming \/ NotifyJob \/ CallJob \/ EscalateJob \/ AddContact

DeadEndSpec == Init /\ [][DeadEndNext]_vars

-----------------------------------------------------------------------------
(* EmptySpec: the users send BEGIN and messages whose body holds no word, *)
(* as a message that carries only media does.                             *)

\* the Body fields: begin, the empty body and bodies of white space only
EmptyBodies == { <<"b", "e", "g", "i", "n">>, <<>>, <<" ">>, <<" ", " ">> }

EmptyIncoming ==
    \E user \in users, raw \in EmptyBodies : handle_incoming(user.phone_number, raw)

EmptyNext == Tick \/ EmptyIncoming \/ NotifyJob \/ CallJob \/ EscalateJob

EmptySpec == Init /\ [][EmptyNext]_vars

-----------------------------------------------------------------------------
(* Vocabulary of the properties, stated on the tables and on the latest step *)

UserIds == {u.id : u \in users}

OwnerOfPhone(p) == {u \in users : u.phone_number = p}

DelayOf(uid) == (CHOOSE u \in users : u.id = uid).delay_interval

ContactsOf(uid) == {c \in contacts : c.contact_of = uid}

ActiveOf(ss, uid) == {i \in DOMAIN ss : ss[i].user_id = uid /\ ss[i].status = "active"}

\* minutes since the last check-in recorded on session sid
MinutesSince(ss, sid, t) == t - ss[sid].last_check_in_at

\* the step taken is the run of a stage callback; Fired is its job
JobStep == last'.op \in Stages

Fired == last'.timer

\* the step taken is the handling of an inbound message by this handler
CommandStep(op) == last'.op = op /\ ~last'.error

NothingDone == /\ outbox' = <<>>
               /\ scheduled' = <<>>
               /\ sessions' = sessions

PendingFor(sid) == {job \in BagToSet(timers) : job.session_id = sid}

\* the users phone is a contact of who have a session in status alert
Candidates(ss, phone) ==
    {uid \in UserIds :
        /\ \E c \in contacts : c.contact_of = uid /\ c.phone_number = phone
        /\ \E i \in DOMAIN ss : ss[i].user_id = uid /\ ss[i].status = "alert"}

\* the ids of the contact records that make phone a contact of uid
ContactIds(uid, phone) ==
    {c.id : c \in {c \in contacts : c.contact_of = uid /\ c.phone_number = phone}}

\* the step de-escalates exactly one session, an alert session of uid, in the
\* name of the sender, and thanks the sender
DeescalatesOnly(uid) ==
    /\ DOMAIN sessions' = DOMAIN sessions
    /\ \E s \in DOMAIN sessions :
          /\ sessions[s].user_id = uid
          /\ sessions[s].status = "alert"
          /\ sessions'[s].status = "inactive"
          /\ sessions'[s].checked_in_by_contact_id \in ContactIds(uid, last'.from)
          /\ \A i \in DOMAIN sessions : i # s => sessions'[i] = sessions[i]
    /\ outbox' = <<[via |-> "sms", to |-> last'.from, text |-> <<"marked_safe">>]>>

-----------------------------------------------------------------------------
(* C1: at every instant each user has at most one session with status      *)
(* active, whatever commands and timer callbacks have run.                  *)

C1_SingleActiveSession ==
    \A uid \in UserIds : Cardinality(ActiveOf(sessions, uid)) <= 1

\* a second BEGIN has replaced a user's session: one closed, one active
C1_Witness ==
    \E i, j \in DOMAIN sessions :
        /\ i # j
        /\ sessions[i].user_id = sessions[j].user_id
        /\ sessions[i].status = "inactive"
        /\ sessions[j].status = "active"
        /\ last.op = "begin"

(* C2: a stage callback that fires for a session whose status is not       *)
(* active sends nothing, writes no session and schedules no further stage.  *)

C2_ClosedSessionIsNoOp ==
    [][ (JobStep /\ sessions[Fired.session_id].status # "active") => NothingDone ]_vars

(* C3, the reset law: a stage callback of any stage that fires for an      *)
(* active session less than D minutes after its last check-in schedules    *)
(* the reminder check D minutes later and does nothing else.                *)

C3_ResetLaw ==
    [][ (/\ JobStep
         /\ sessions[Fired.session_id].status = "active"
         /\ MinutesSince(sessions, Fired.session_id, now)
              < DelayOf(sessions[Fired.session_id].user_id))
        => (/\ scheduled' = <<[stage |-> "notify", to_number |-> Fired.to_number,
                               session_id |-> Fired.session_id,
                               due |-> now + DelayOf(sessions[Fired.session_id].user_id)]>>
            /\ outbox' = <<>>
            /\ sessions' = sessions) ]_vars

\* the escalation check has found a fresh check-in and gone back to the reminder check
C3_Witness ==
    /\ last.op = "escalate"
    /\ sessions[last.timer.session_id].status = "active"
    /\ MinutesSince(sessions, last.timer.session_id, now)
         < DelayOf(sessions[last.timer.session_id].user_id)
    /\ Len(scheduled) = 1
    /\ scheduled[1].stage = "notify"

(* C4, the escalation law: while a user with a contact has sent nothing    *)
(* since a BEGIN at T0, the chain's side effects are exactly the reminder   *)
(* at T0+D, the call at T0+2D and the escalation at T0+3D, in this order;   *)
(* after the third the session is alert (until a contact marks it safe),    *)
(* none is active and no job is pending for it.                             *)

EffectsSeen(uid) == [i \in DOMAIN effects[uid] |-> <<effects[uid][i].kind, effects[uid][i].at>>]

EffectsDue(T0, D) == <<<<"reminder", T0 + D>>, <<"call", T0 + 2 * D>>, <<"escalate", T0 + 3 * D>>>>

C4_EscalationLaw ==
    \A uid \in UserIds :
        (inbound[uid].kind = "begin" /\ ContactsOf(uid) # {}) =>
        LET due == EffectsDue(inbound[uid].at, DelayOf(uid))
            seen == EffectsSeen(uid)
            S == inbound[uid].session
        IN  /\ Len(seen) <= 3
            /\ seen = SubSeq(due, 1, Len(seen))
            /\ \A i \in 1..3 : due[i][2] < now => Len(seen) >= i
            /\ Len(seen) = 3 => /\ \/ sessions[S].status = "alert"
                                   \/ /\ sessions[S].status = "inactive"
                                      /\ sessions[S].checked_in_by_contact_id # Null
                                /\ ActiveOf(sessions, uid) = {}
                                /\ PendingFor(S) = {}

(* C5, the dead end without contacts: no session of a user who has no      *)
(* escalation contact is ever in status alert, and the escalation check     *)
(* that fires stale for such a user sends nothing, leaves the session       *)
(* active and schedules nothing.                                            *)

C5_NoContactsDeadEnd ==
    [][ /\ \A i \in DOMAIN sessions' :
              ContactsOf(sessions'[i].user_id) = {} => sessions'[i].status # "alert"
        /\ (/\ JobStep
            /\ Fired.stage = "escalate"
            /\ sessions[Fired.session_id].status = "active"
            /\ ContactsOf(sessions[Fired.session_id].user_id) = {}
            /\ MinutesSince(sessions, Fired.session_id, now)
                 >= DelayOf(sessions[Fired.session_id].user_id))
           => NothingDone ]_vars

\* the escalation check has fired stale for a user without contacts
C5_Witness ==
    /\ last.op = "escalate"
    /\ sessions[last.timer.session_id].status = "active"
    /\ ContactsOf(sessions[last.timer.session_id].user_id) = {}
    /\ MinutesSince(sessions, last.timer.session_id, now)
         >= DelayOf(sessions[last.timer.session_id].user_id)
    /\ outbox = <<>>
    /\ scheduled = <<>>

(* C6 as stated: DONE from a known user without an active session sends    *)
(* nothing and changes no stored record at all.                             *)

C6_DoneWithoutSessionChangesNothing ==
    [][ \A u \in OwnerOfPhone(last'.from) :
          (CommandStep("done") /\ ActiveOf(sessions, u.id) = {})
          => (/\ outbox' = <<>>
              /\ sessions' = sessions
              /\ timers' = timers
              /\ logged' = <<>>) ]_vars

(* C6 as amended: DONE from a known user without an active session sends   *)
(* nothing, schedules nothing and changes no session; the one record it     *)
(* stores is the inbound message, appended to the message log for the user. *)

C6_DoneWithoutSessionOnlyLogs ==
    [][ \A u \in OwnerOfPhone(last'.from) :
          (CommandStep("done") /\ ActiveOf(sessions, u.id) = {})
          => (/\ outbox' = <<>>
              /\ sessions' = sessions
              /\ timers' = timers
              /\ Len(logged') = 1
              /\ logged'[1].direction = "incoming"
              /\ logged'[1].user_id = u.id) ]_vars

\* a DONE has been handled for a known user who had no active session
C6_Witness ==
    /\ last.op = "done"
    /\ OwnerOfPhone(last.from) # {}
    /\ outbox = <<>>
    /\ Len(logged) = 1

(* C7: DONE from a user with an active session leaves the user without an  *)
(* active session, sets each formerly active session to inactive with       *)
(* ended_at and last_check_in_at at now, touches no other session and sends *)
(* exactly one confirmation.                                                *)

C7_DoneEndsEverySession ==
    [][ \A u \in OwnerOfPhone(last'.from) :
          (CommandStep("done") /\ ActiveOf(sessions, u.id) # {})
          => (/\ ActiveOf(sessions', u.id) = {}
              /\ DOMAIN sessions' = DOMAIN sessions
              /\ \A i \in DOMAIN sessions :
                    IF i \in ActiveOf(sessions, u.id)
                    THEN sessions'[i] = [sessions[i] EXCEPT !.status = "inactive",
                                                            !.ended_at = now,
                                                            !.last_check_in_at = now]
                    ELSE sessions'[i] = sessions[i]
              /\ Len(outbox') = 1
              /\ outbox'[1].to = last'.from
              /\ outbox'[1].text = <<"done_confirmation">>) ]_vars

\* a DONE has just ended a session and been confirmed
C7_Witness ==
    /\ last.op = "done"
    /\ Len(outbox) = 1
    /\ \E i \in DOMAIN sessions :
          /\ sessions[i].user_id \in {u.id : u \in OwnerOfPhone(last.from)}
          /\ sessions[i].status = "inactive"
          /\ sessions[i].ended_at = now
          /\ sessions[i].last_check_in_at = now

(* C8: BEGIN from a known user sets every active session of the user to    *)
(* inactive, adds exactly one session, active and checked in at now, and    *)
(* schedules exactly one job: the reminder check of the new session, D      *)
(* minutes later.                                                           *)

C8_BeginStartsOneSession ==
    [][ \A u \in OwnerOfPhone(last'.from) :
          CommandStep("begin")
          => LET new == Len(sessions) + 1
                 job == [stage |-> "notify", to_number |-> last'.from,
                         session_id |-> new, due |-> now + u.delay_interval]
             IN  /\ Len(sessions') = new
                 /\ sessions'[new].user_id = u.id
                 /\ sessions'[new].status = "active"
                 /\ sessions'[new].last_check_in_at = now
                 /\ \A i \in DOMAIN sessions :
                       IF i \in ActiveOf(sessions, u.id)
                       THEN sessions'[i].status = "inactive"
                       ELSE sessions'[i] = sessions[i]
                 /\ scheduled' = <<job>>
                 /\ timers' = timers (+) SetToBag({job}) ]_vars

\* a BEGIN has closed the user's running session and started the next one
C8_Witness ==
    /\ last.op = "begin"
    /\ Len(scheduled) = 1
    /\ \E i \in DOMAIN sessions :
          /\ i < Len(sessions)
          /\ sessions[i].user_id = sessions[Len(sessions)].user_id
          /\ sessions[i].status = "inactive"
          /\ sessions[i].ended_at = now
    /\ sessions[Len(sessions)].status = "active"

(* C9: BEGIN from a phone number of no registered user creates and changes *)
(* no session, schedules nothing, sends nothing and logs nothing.           *)

C9_BeginUnknownIsNoOp ==
    [][ (CommandStep("begin") /\ OwnerOfPhone(last'.from) = {})
        => (/\ sessions' = sessions
            /\ timers' = timers
            /\ scheduled' = <<>>
            /\ outbox' = <<>>
            /\ logged' = <<>>) ]_vars

\* a BEGIN from a phone number that is no user's has been handled
C9_Witness ==
    /\ last.op = "begin"
    /\ ~last.error
    /\ OwnerOfPhone(last.from) = {}

(* C10: a check-in from a user with an active session sets that session's  *)
(* last_check_in_at to now and sends one acknowledgment; no status and no   *)
(* other session changes, and no job is scheduled.                          *)

C10_CheckInOnlyRefreshes ==
    [][ \A u \in OwnerOfPhone(last'.from) :
          (CommandStep("reply") /\ ActiveOf(sessions, u.id) # {})
          => (/\ \E s \in ActiveOf(sessions, u.id) :
                    sessions' = [sessions EXCEPT ![s].last_check_in_at = now]
              /\ Len(outbox') = 1
              /\ outbox'[1].to = last'.from
              /\ outbox'[1].text = <<"checkin_ack">>
              /\ scheduled' = <<>>
              /\ timers' = timers) ]_vars

\* a check-in has been recorded on a session begun earlier
C10_Witness ==
    /\ last.op = "reply"
    /\ Len(outbox) = 1
    /\ outbox[1].text = <<"checkin_ack">>
    /\ \E s \in DOMAIN sessions :
          /\ sessions[s].user_id \in {u.id : u \in OwnerOfPhone(last.from)}
          /\ sessions[s].status = "active"
          /\ sessions[s].last_check_in_at = now
          /\ sessions[s].started_at < now

(* C11: a check-in from a phone number of no registered user, or from a     *)
(* user without an active session, is answered with the info message alone, *)
(* changes no session, schedules nothing and raises no error.               *)

C11_CheckInWithoutSessionGetsInfo ==
    [][ (/\ last'.op = "reply"
         /\ \A u \in OwnerOfPhone(last'.from) : ActiveOf(sessions, u.id) = {})
        => (/\ ~last'.error
            /\ outbox' = <<[via |-> "sms", to |-> last'.from, text |-> <<"info">>]>>
            /\ sessions' = sessions
            /\ scheduled' = <<>>
            /\ timers' = timers) ]_vars

\* a check-in from a user whose session had been closed has been answered
C11_Witness ==
    /\ last.op = "reply"
    /\ Len(outbox) = 1
    /\ outbox[1].text = <<"info">>
    /\ \E u \in OwnerOfPhone(last.from) :
          /\ ActiveOf(sessions, u.id) = {}
          /\ \E i \in DOMAIN sessions :
                sessions[i].user_id = u.id /\ sessions[i].status = "inactive"

(* C12: a session whose status is inactive or alert never has status active *)
(* again: no step writes active to a session that exists, and no session    *)
(* is ever removed.                                                         *)

C12_NeverActiveAgain ==
    [][ /\ DOMAIN sessions \subseteq DOMAIN sessions'
        /\ \A i \in DOMAIN sessions :
              sessions[i].status # "active" => sessions'[i].status # "active" ]_vars

\* a session has gone from active to alert and from alert to inactive
C12_Witness ==
    \E i \in DOMAIN sessions :
        /\ sessions[i].status = "inactive"
        /\ sessions[i].checked_in_by_contact_id # Null
        /\ last.op = "safe"

(* C13: once a DONE has set a session to inactive its status stays          *)
(* inactive, under every interleaving of the store statements of the        *)
(* handlers and the callbacks; an escalation running beside the DONE never  *)
(* leaves the session in status alert.                                      *)

C13_DoneIsTerminal ==
    \A uid \in UserIds : \A k \in DOMAIN effects[uid] :
        effects[uid][k].kind = "ended_by_done"
        => sessions[effects[uid][k].session].status = "inactive"

(* C14: when no BEGIN is being handled any more, also after two BEGIN of    *)
(* one user were handled at once with their statements interleaved, each    *)
(* user has at most one session with status active.                         *)

C14_SingleActiveAfterConcurrentBegins ==
    (\A slot \in DOMAIN running : running[slot].op # "begin")
    => \A uid \in UserIds : Cardinality(ActiveOf(sessions, uid)) <= 1

(* C15: a stage callback that a check-in has overtaken (the check-in was    *)
(* written to its session after its staleness test) notifies no contact and *)
(* sets no session to alert.                                                *)

C15_FreshCheckInWins ==
    [][ \A slot \in DOMAIN running :
          (running[slot].overtaken /\ running'[slot] # running[slot])
          => (/\ \A i \in DOMAIN outbox' : outbox'[i].text[1] # "contact_notification"
              /\ \A i \in DOMAIN sessions : sessions'[i].status = "alert"
                                             => sessions[i].status = "alert") ]_vars

(* C16: after a check-in that overtook a reminder or call callback of its   *)
(* session, the user gets at most one reminder or call of that session      *)
(* before a full chain period has passed again: the callback overtaken may  *)
(* still send, the callback that fires next, D minutes later, goes back to  *)
(* the reminder check, which is next due 2D minutes after the check-in.     *)

C16_RaceIsBoundedAndSelfCorrecting ==
    \A uid \in UserIds : \A k \in DOMAIN effects[uid] :
        effects[uid][k].kind = "raced_check_in"
        => Cardinality({j \in DOMAIN effects[uid] :
                          /\ j > k
                          /\ effects[uid][j].kind \in {"reminder", "call", "escalate"}
                          /\ effects[uid][j].session = effects[uid][k].session
                          /\ effects[uid][j].at < effects[uid][k].at + 2 * DelayOf(uid)}) <= 1

(* C17: SAFE from a phone number that is a contact of no user with a        *)
(* session in status alert (a contact or not) is answered that no action    *)
(* is needed, and the step changes no table and no job: the same SAFE can   *)
(* follow any number of times with the same outcome.                        *)

C17_SafeWithoutCandidates ==
    [][ (last'.op = "safe" /\ Candidates(sessions, last'.from) = {})
        => (/\ outbox' = <<[via |-> "sms", to |-> last'.from,
                            text |-> <<"no_action_needed">>]>>
            /\ sessions' = sessions
            /\ users' = users
            /\ contacts' = contacts
            /\ timers' = timers
            /\ logged' = <<>>
            /\ ~last'.error) ]_vars

\* a contact has sent SAFE while a session of its user was running, none alert
C17_Witness ==
    /\ last.op = "safe"
    /\ outbox = <<[via |-> "sms", to |-> last.from, text |-> <<"no_action_needed">>]>>
    /\ \E c \in contacts : c.phone_number = last.from
    /\ \E i \in DOMAIN sessions : sessions[i].status = "active"

(* C18: SAFE with exactly one candidate, whatever its text: one alert       *)
(* session of the candidate becomes inactive with the id of the sender's    *)
(* contact record for that user in checked_in_by_contact_id, the sender is  *)
(* thanked, and no other session changes.                                   *)

C18_SafeWithOneCandidate ==
    [][ (last'.op = "safe" /\ Cardinality(Candidates(sessions, last'.from)) = 1)
        => \E uid \in Candidates(sessions, last'.from) : DeescalatesOnly(uid) ]_vars

\* a session has been marked safe by a SAFE with a number that is not its user's id
C18_Witness ==
    /\ last.op = "safe"
    /\ Len(outbox) = 1
    /\ outbox[1].text = <<"marked_safe">>
    /\ extract_int(last.text) # Null
    /\ \E i \in DOMAIN sessions :
          /\ sessions[i].status = "inactive"
          /\ sessions[i].checked_in_by_contact_id \in ContactIds(sessions[i].user_id, last.from)
          /\ sessions[i].started_at = now
          /\ sessions[i].user_id # extract_int(last.text)
    /\ Candidates(sessions, last.from) = {}

(* C19: SAFE with more than one candidate and a text whose integer is the   *)
(* id of a candidate: one alert session of that user is de-escalated in the *)
(* name of the sender and every other session, those of the other           *)
(* candidates among them, is left as it was.                                *)

C19_SafeWithIdOfCandidate ==
    [][ (/\ last'.op = "safe"
         /\ Cardinality(Candidates(sessions, last'.from)) > 1
         /\ extract_int(last'.text) \in Candidates(sessions, last'.from))
        => (/\ DeescalatesOnly(extract_int(last'.text))
            /\ (Candidates(sessions, last'.from) \ {extract_int(last'.text)})
                  \subseteq Candidates(sessions', last'.from)) ]_vars

\* of two users in alert the one named in the SAFE has been marked safe
C19_Witness ==
    /\ last.op = "safe"
    /\ outbox = <<[via |-> "sms", to |-> last.from, text |-> <<"marked_safe">>]>>
    /\ Candidates(sessions, last.from) # {}
    /\ extract_int(last.text) \notin Candidates(sessions, last.from)
    /\ \E i \in DOMAIN sessions :
          /\ sessions[i].user_id = extract_int(last.text)
          /\ sessions[i].status = "inactive"
          /\ sessions[i].started_at = now
          /\ sessions[i].checked_in_by_contact_id \in ContactIds(sessions[i].user_id, last.from)

(* C20: SAFE with more than one candidate and a text without an integer, or *)
(* with an integer that is no candidate's id: no session changes and the    *)
(* sender gets one message, the listing of every candidate with its id.     *)

C20_SafeAmbiguousGetsListing ==
    [][ (/\ last'.op = "safe"
         /\ Cardinality(Candidates(sessions, last'.from)) > 1
         /\ extract_int(last'.text) \notin Candidates(sessions, last'.from))
        => (/\ sessions' = sessions
            /\ timers' = timers
            /\ ~last'.error
            /\ outbox' = <<[via |-> "sms", to |-> last'.from,
                            text |-> <<"listing", Candidates(sessions, last'.from)>>]>>) ]_vars

\* two users are in alert and the SAFE named a number that is neither's id
C20_Witness ==
    /\ last.op = "safe"
    /\ Len(outbox) = 1
    /\ outbox[1].text[1] = "listing"
    /\ Cardinality(Candidates(sessions, last.from)) = 2
    /\ extract_int(last.text) # Null


(* C21: a message that names no command, from a phone number that is no     *)
(* registered user and is a contact of a user with a session in status      *)
(* alert, is handled as mark-safe input: it de-escalates a session of a     *)
(* candidate or is answered with the listing of the candidates.             *)

C21_ContactReplyIsMarkSafe ==
    [][ (/\ last'.op = "reply"
         /\ OwnerOfPhone(last'.from) = {}
         /\ Candidates(sessions, last'.from) # {})
        => (\/ \E uid \in Candidates(sessions, last'.from) : DeescalatesOnly(uid)
            \/ /\ sessions' = sessions
               /\ outbox' = <<[via |-> "sms", to |-> last'.from,
                               text |-> <<"listing", Candidates(sessions, last'.from)>>]>>) ]_vars

(* C22: while a user has an active session, every inbound message of that   *)
(* user that is not begin, done or end is recorded as a check-in: the       *)
(* step leaves an active session of the user whose last check-in is now,    *)
(* whatever the first word of the message is.                               *)

C22_EveryMessageChecksIn ==
    [][ \A u \in OwnerOfPhone(last'.from) :
           (/\ last'.op \in {"reply", "info", "safe"}
            /\ ActiveOf(sessions, u.id) # {})
           => \E s \in ActiveOf(sessions, u.id) :
                 /\ sessions'[s].status = "active"
                 /\ sessions'[s].last_check_in_at = now ]_vars


\* the step taken is an escalation that forces session s to status alert
Escalates(s) ==
    /\ last'.op = "escalate"
    /\ s \in DOMAIN sessions
    /\ sessions[s].status = "active"
    /\ sessions'[s].status = "alert"

(* C25: for every session the chain escalates, the contacts are notified    *)
(* exactly 3 x D minutes after the last check-in recorded on the session,   *)
(* whether or not the user checked in after begin.                          *)

MostRecentOf(ss, user_id) ==
    {i \in DOMAIN ss : /\ ss[i].user_id = user_id
                       /\ \A j \in DOMAIN ss : ss[j].user_id = user_id => j <= i}

(* C26: the reverse lookup of mark-safe returns a user for a contact phone  *)
(* number only if the most recent session of that user has status alert: a  *)
(* user who has begun a newer session since the escalation is not returned. *)

C26_LookupOnlyMostRecentAlert ==
    \A phone \in Phones :
        \A contactsTo \in get_recent_timeouts_for_contact(sessions, users, contacts, phone) :
            \A row \in contactsTo :
                \A i \in MostRecentOf(sessions, row.user_id) : sessions[i].status = "alert"

\* the latest check-in (or begin) recorded on any session of uid
LatestCheckIn(ss, uid) == Max({ss[i].last_check_in_at : i \in {j \in DOMAIN ss : ss[j].user_id = uid}})

(* C29: where callbacks run atomically, contacts are never notified and a   *)
(* session is never forced to status alert sooner than 3 x D minutes after  *)
(* the most recent check-in (or begin) of the user.                         *)

C29_NeverSoonerThanThreeIntervals ==
    [][ \A s \in DOMAIN sessions :
           Escalates(s)
           => now - LatestCheckIn(sessions, sessions[s].user_id)
                 >= 3 * DelayOf(sessions[s].user_id) ]_vars


\* the step taken is the reminder or call callback of a job whose session was
\* active and stale, and the provider did not accept every message of it
NotifierFailed ==
    /\ last'.op \in {"notify", "call"}
    /\ Fired.session_id \in DOMAIN sessions
    /\ sessions[Fired.session_id].status = "active"
    /\ \E u \in OwnerOfPhone(Fired.to_number) :
          /\ u.id = sessions[Fired.session_id].user_id
          /\ now - LatestCheckIn(sessions, u.id) >= u.delay_interval
    /\ \/ last'.error
       \/ Len(outbox') < (IF last'.op = "notify" THEN 1 ELSE 2)

(* C23: when the notifier fails or rejects the reminder of stage 1 or the   *)
(* call or SMS of stage 2 for an active stale session, the callback still   *)
(* schedules the next stage D minutes later: the chain goes on.             *)

C23_FailureNeverStopsChain ==
    [][ NotifierFailed
        => \E job \in BagToSet(timers') :
              /\ job.stage = (IF last'.op = "notify" THEN "call" ELSE "escalate")
              /\ job.session_id = Fired.session_id
              /\ job.to_number = Fired.to_number
              /\ job.due = now + DelayOf(sessions[Fired.session_id].user_id) ]_vars


\* the job fired belongs to no user any more, or to a user without a session
Unresolved(job) ==
    \/ OwnerOfPhone(job.to_number) = {}
    \/ \E u \in OwnerOfPhone(job.to_number) :
          \A i \in DOMAIN sessions : sessions[i].user_id # u.id

(* C24: a stage callback that fires after its phone number stopped          *)
(* resolving to a user, or whose last-check-in lookup gives the absence     *)
(* marker, ends normally as a silent no-op: no error is raised, nothing is  *)
(* sent, nothing is scheduled and no session changes.                       *)

C24_UnresolvedCallbackIsSilent ==
    [][ (JobStep /\ Unresolved(Fired))
        => (/\ ~last'.error
            /\ NothingDone
            /\ timers' = timers (-) SetToBag({Fired})) ]_vars


\* the interval stated in the confirmation of the BEGIN just handled
Rendered == Tail(outbox[1].text)

(* C27: the delay interval m is rendered as "<m> minute(s)" for m < 60, as  *)
(* "<h> hour(s)" when m is a positive multiple of 60, and otherwise as      *)
(* "<h> hour(s) and <r> minute(s)", where 60 * h + r = m and 0 <= r < 60,   *)
(* for every non-negative m.                                                *)

C27_DelayRendering ==
    (last.op = "begin" /\ outbox # <<>>)
    => \A u \in OwnerOfPhone(last.from) :
          LET m == u.delay_interval
          IN  /\ outbox[1].text[1] = "begin_confirmation"
              /\ m < 60 => Rendered = <<m, "minute(s)">>
              /\ m >= 60 =>
                    \E h \in 1..m, r \in 0..59 :
                        /\ 60 * h + r = m
                        /\ Rendered = IF r = 0 THEN <<h, "hour(s)">>
                                      ELSE <<h, "hour(s) and", r, "minute(s)">>

\* a user with a delay interval of 90 minutes has been told 1 hour(s) and 30 minute(s)
C27_Witness ==
    /\ last.op = "begin"
    /\ \E u \in OwnerOfPhone(last.from) : u.delay_interval = 90
    /\ outbox = <<[via |-> "sms", to |-> last.from,
                   text |-> <<"begin_confirmation", 1, "hour(s) and", 30, "minute(s)">>]>>


\* the characters of text from its first digit to the end of the run of
\* digits that digit starts; <<>> when text has no digit
FirstDigitRun(text) ==
    LET digits == {i \in DOMAIN text : isdigit(text[i])}
    IN  IF digits = {} THEN <<>>
        ELSE LET first == CHOOSE i \in digits : \A j \in digits : i <= j
                 end == CHOOSE j \in first..Len(text) :
                            /\ \A k \in first..j : isdigit(text[k])
                            /\ j = Len(text) \/ ~isdigit(text[j + 1])
             IN  SubSeq(text, first, end)

RECURSIVE DecimalValue(_)
DecimalValue(ds) ==
    IF ds = <<>> THEN 0
    ELSE 10 * DecimalValue(SubSeq(ds, 1, Len(ds) - 1)) + DigitValue[ds[Len(ds)]]

\* the number a text names: the value of its first run of digits, if any
FirstNumber(text) == IF FirstDigitRun(text) = <<>> THEN Null ELSE DecimalValue(FirstDigitRun(text))

(* C28: the user id taken from a SAFE reply is the value of the first       *)
(* maximal run of digit characters of the message, absent when the message  *)
(* has no digit; later runs are ignored.  With two candidates the SAFE      *)
(* de-escalates the candidate that number names and otherwise is answered   *)
(* with the listing; "safe 4 2" gives 4, "id7 then 42" gives 7, "ok" none.  *)

C28_FirstDigitRun ==
    [][ (last'.op = "safe" /\ Cardinality(Candidates(sessions, last'.from)) > 1)
        => (/\ extract_int(last'.text) = FirstNumber(last'.text)
            /\ IF FirstNumber(last'.text) \in Candidates(sessions, last'.from)
               THEN DeescalatesOnly(FirstNumber(last'.text))
               ELSE /\ sessions' = sessions
                    /\ outbox'[1].text[1] = "listing"
            /\ extract_int(<<"s", "a", "f", "e", " ", "4", " ", "2">>) = 4
            /\ extract_int(<<"i", "d", "7", " ", "t", "h", "e", "n", " ", "4", "2">>) = 7
            /\ extract_int(<<"o", "k">>) = Null) ]_vars

\* SAFE with the ids of both candidates has de-escalated the one named first
C28_Witness ==
    /\ last.op = "safe"
    /\ last.text = <<"s", "a", "f", "e", " ", "1", " ", "2">>
    /\ sessions[1].status = "inactive"
    /\ sessions[1].checked_in_by_contact_id = 1
    /\ sessions[2].status = "alert"


\* session s is active and its user has an escalation contact
ActiveWithContacts(s) ==
    /\ s \in DOMAIN sessions
    /\ sessions[s].status = "active"
    /\ ContactsOf(sessions[s].user_id) # {}

\* session s has just been forced to alert and the same step has sent a
\* notification to every contact of its user
EscalatedToAll(s) ==
    /\ s \in DOMAIN sessions
    /\ sessions[s].status = "alert"
    /\ last.op = "escalate"
    /\ last.timer.session_id = s
    /\ \A c \in ContactsOf(sessions[s].user_id) :
          \E i \in DOMAIN outbox :
              /\ outbox[i].to = c.phone_number
              /\ outbox[i].text[1] = "contact_notification"

\* the user has ended session s, by DONE or by a new BEGIN
EndedByUser(s) ==
    /\ s \in DOMAIN sessions
    /\ sessions[s].status = "inactive"
    /\ sessions[s].checked_in_by_contact_id = Null

(* C30: liveness.  For a user with an escalation contact, an active session *)
(* that the user never ends, after the last of finitely many inbound        *)
(* messages and with every due timer fired, eventually reaches status alert *)
(* in a step that sends a notification to every contact of the user.        *)

C30_EventuallyEscalated ==
    \A s \in 1..MaxSessions :
        ActiveWithContacts(s) ~> (EscalatedToAll(s) \/ EndedByUser(s))


(* C31: the escalation callback of session S sets only S to status alert:   *)
(* under every interleaving with a BEGIN of the same user, a session begun  *)
(* after the staleness test of the callback is not set to alert by it.      *)

C31_EscalationAlertsOwnSessionOnly ==
    [][ (last'.op = "escalate" /\ last'.stmt = "timeout_session")
        => \A i \in DOMAIN sessions :
              (sessions[i].status # "alert" /\ sessions'[i].status = "alert")
              => i = Fired.session_id ]_vars


\* an escalation callback for a user phone is a contact of has sent its
\* notifications and is about to write status alert to a session
AlertingFor(phone) ==
    \E slot \in DOMAIN running :
        /\ running[slot].op = "escalate"
        /\ running[slot].pc = "timeout_session"
        /\ \E c \in ContactsOf(running[slot].user_id) : c.phone_number = phone

(* C32: once the escalation notification for a user has been sent to a      *)
(* contact, a SAFE of that contact is never answered that no action is      *)
(* needed while the session of the user ends up in alert, wherever the      *)
(* SAFE falls among the remaining statements of the escalation callback.    *)

C32_SafeAfterNotificationFindsAlert ==
    [][ (last'.op = "safe" /\ AlertingFor(last'.from))
        => outbox' # <<[via |-> "sms", to |-> last'.from,
                        text |-> <<"no_action_needed">>]>> ]_vars


(* C33: after the SAFE of a contact has de-escalated a user, the user has   *)
(* no session left in status alert, so a following SAFE of the contact no   *)
(* longer lists or resolves the user, also when more than one session of    *)
(* the user had been escalated.                                             *)

C33_DeescalationClearsUser ==
    [][ \A s \in DOMAIN sessions :
           (/\ last'.op = "safe"
            /\ sessions[s].status = "alert"
            /\ sessions'[s].status = "inactive")
           => sessions[s].user_id \notin Candidates(sessions', last'.from) ]_vars


(* C34: a session in status alert changes only through the de-escalation by *)
(* a contact: BEGIN, DONE and check-in messages and every timer callback,   *)
(* each run atomically, leave the status and the fields of every alert      *)
(* session as they were.                                                    *)

C34_AlertChangesOnlyBySafe ==
    [][ last'.op # "safe"
        => \A s \in DOMAIN sessions :
              sessions[s].status = "alert"
              => (s \in DOMAIN sessions' /\ sessions'[s] = sessions[s]) ]_vars

\* the user of a session in alert has begun again and the chain of the new
\* session has sent its reminder
C34_Witness ==
    /\ last.op = "notify"
    /\ outbox # <<>>
    /\ last.timer.session_id \in DOMAIN sessions
    /\ sessions[last.timer.session_id].status = "active"
    /\ \E s \in DOMAIN sessions :
          /\ sessions[s].status = "alert"
          /\ sessions[s].user_id = sessions[last.timer.session_id].user_id

(* C35: the de-escalation changes only the status of the session, to        *)
(* inactive, and its de-escalating contact: the start, the end and the last *)
(* check-in of the session stay as they were.                               *)

C35_DeescalationKeepsTimestamps ==
    [][ \A s \in DOMAIN sessions :
           (/\ last'.op = "safe"
            /\ sessions[s].status = "alert"
            /\ sessions'[s].status = "inactive")
           => (/\ sessions'[s].started_at = sessions[s].started_at
               /\ sessions'[s].ended_at = sessions[s].ended_at
               /\ sessions'[s].last_check_in_at = sessions[s].last_check_in_at
               /\ sessions'[s].user_id = sessions[s].user_id) ]_vars


(* C36: with every scheduled callback fired once, at most one stage timer   *)
(* is pending for a session at any time: BEGIN schedules one and a callback *)
(* schedules at most one successor.                                         *)

C36_OneTimerPerSession ==
    \A job \in BagToSet(timers) :
        /\ CopiesIn(job, timers) = 1
        /\ PendingFor(job.session_id) = {job}


\* session s is active and no stage timer is pending for it: its chain has
\* come to the dead end of an escalation without contacts
DeadEnded(s) ==
    /\ s \in DOMAIN sessions
    /\ sessions[s].status = "active"
    /\ PendingFor(s) = {}

(* C37: after the dead end for want of contacts the session stays active    *)
(* with no stage timer pending, and nothing but a new BEGIN (or DONE) of    *)
(* the user changes that: check-ins followed by silence and contacts added  *)
(* later give no reminder, no call and no escalation for the session.       *)

C37_DeadEndStaysDead ==
    [][ \A s \in DOMAIN sessions :
           DeadEnded(s)
           => (/\ {job \in BagToSet(timers') : job.session_id = s} = {}
               /\ JobStep => Fired.session_id # s
               /\ sessions'[s].status \in {"active", "inactive"}
               /\ sessions'[s].status = "inactive" => last'.op \in {"begin", "done"}) ]_vars

\* a dead-ended session whose user now has a contact and has been silent
\* for three intervals since a check-in: no timer is pending and time goes on
C37_Witness ==
    /\ last.op = "tick"
    /\ \E s \in DOMAIN sessions :
          /\ DeadEnded(s)
          /\ ContactsOf(sessions[s].user_id) # {}
          /\ sessions[s].last_check_in_at > sessions[s].started_at
          /\ now - sessions[s].last_check_in_at >= 3 * DelayOf(sessions[s].user_id)


(* C38: a message with an empty or white-space-only body from a user with  *)
(* an active session is handled without error and goes to the default      *)
(* handler, which records it as a check-in of the active session.          *)

C38_EmptyBodyChecksIn ==
    [][ \A user \in users :
           (/\ received' = received + 1
            /\ last'.from = user.phone_number
            /\ last'.op # "begin"
            /\ active_session_exists(sessions, user.id))
           => (/\ ~last'.error
               /\ last'.op = "reply"
               /\ \E s \in get_active_session(sessions', user.id) :
                     sessions'[s].last_check_in_at = now) ]_vars

=============================================================================
